---- MODULE Spec2Model ----
(***************************************************************************)
(* Model of run.py, the host metrics snapshot tool: the collector          *)
(* (get_disk_metrics, collect_metrics), the four presenters and the        *)
(* top-level dispatch with its exception handler.                          *)
(*                                                                         *)
(* A string is a sequence of one-character strings.  A literal of the      *)
(* source that holds none of the characters an operation looks for         *)
(* (',', '/', '.', '_' at its ends, '"') is kept as a single element.      *)
(* Numbers rounded to two decimals are kept as integers in hundredths.     *)
(***************************************************************************)
EXTENDS Integers, Sequences, FiniteSets, TLC

VARIABLES args, pc, mounts, metrics, enumerated, readings,
          enumerations, raised, stdout, stderr, exit_status

vars == <<args, pc, mounts, metrics, enumerated, readings,
          enumerations, raised, stdout, stderr, exit_status>>

\* ---------------------------------------------------------------- bounds
MaxParts == 2
MaxLen == 3

\* ------------------------------------------------------- string helpers
Max(S) == CHOOSE x \in S : \A y \in S : y <= x

RECURSIVE concat(_)
concat(ss) == IF ss = <<>> THEN <<>> ELSE Head(ss) \o concat(Tail(ss))

RECURSIVE join(_, _)
join(sep, items) ==
  IF items = <<>> THEN <<>>
  ELSE IF Len(items) = 1 THEN items[1]
  ELSE items[1] \o sep \o join(sep, Tail(items))

replace(s, old, new) == [i \in 1..Len(s) |-> IF s[i] = old THEN new ELSE s[i]]

RECURSIVE lstrip(_, _)
lstrip(s, c) == IF s # <<>> /\ Head(s) = c THEN lstrip(Tail(s), c) ELSE s

RECURSIVE rstrip(_, _)
rstrip(s, c) ==
  IF s # <<>> /\ s[Len(s)] = c THEN rstrip(SubSeq(s, 1, Len(s) - 1), c) ELSE s

strip(s, c) == rstrip(lstrip(s, c), c)

contains(needle, s) ==
  \E i \in 0..(Len(s) - Len(needle)) : SubSeq(s, i + 1, i + Len(needle)) = needle

basename(p) ==
  LET slashes == {i \in 1..Len(p) : p[i] = "/"}
  IN  IF slashes = {} THEN p ELSE SubSeq(p, Max(slashes) + 1, Len(p))

\* ------------------------------------------------------ number helpers
GiB == 1073741824
MiB == 1048576

\* round(b / unit, 2) in hundredths, round-half-even, for 0 <= b < 2^31 and
\* unit a power of two >= 2^10; b * 100 is never formed.
round2(b, unit) ==
  LET lo   == unit \div 1024
      h    == b \div lo
      l    == b % lo
      n    == h * 100 + (l * 100) \div lo
      f    == (l * 100) % lo
      q    == n \div 1024
      rem  == (n % 1024) * lo + f
      half == unit \div 2
  IN  IF rem > half THEN q + 1
      ELSE IF rem < half THEN q
      ELSE IF q % 2 = 0 THEN q ELSE q + 1

\* round((used / size) * 100, 2) in hundredths; byte counts are whole MiB.
percent_all(used, size) ==
  LET u == (used \div MiB) * 10000
      s == size \div MiB
      q == u \div s
      r == u % s
  IN  IF 2 * r > s THEN q + 1
      ELSE IF 2 * r < s THEN q
      ELSE IF q % 2 = 0 THEN q ELSE q + 1

Digit(d) == CASE d = 0 -> "0" [] d = 1 -> "1" [] d = 2 -> "2" [] d = 3 -> "3"
              [] d = 4 -> "4" [] d = 5 -> "5" [] d = 6 -> "6" [] d = 7 -> "7"
              [] d = 8 -> "8" [] d = 9 -> "9"

RECURSIVE Digits(_)
Digits(n) == IF n < 10 THEN <<Digit(n)>> ELSE Digits(n \div 10) \o <<Digit(n % 10)>>

\* ------------------------------------------------------------- values
NoneV     == [t |-> "None",  n |-> 0, s |-> <<>>]
IntV(v)   == [t |-> "int",   n |-> v, s |-> <<>>]
FloatV(h) == [t |-> "float", n |-> h, s |-> <<>>]
StrV(x)   == [t |-> "str",   n |-> 0, s |-> x]

\* str() of a value: repr of a float holding h hundredths, digits of an int
str(v) ==
  CASE v.t = "int"   -> Digits(v.n)
    [] v.t = "float" -> Digits(v.n \div 100) \o <<".">> \o
                        (IF v.n % 10 = 0 THEN <<Digit((v.n % 100) \div 10)>>
                         ELSE <<Digit((v.n % 100) \div 10), Digit(v.n % 10)>>)
    [] v.t = "str"   -> v.s
    [] v.t = "None"  -> <<"None">>

\* format(x, '.2f') and format(x, '.1f') of a number
fmt2(v) ==
  LET h == IF v.t = "int" THEN v.n * 100 ELSE v.n
  IN  Digits(h \div 100) \o <<".", Digit((h % 100) \div 10), Digit(h % 10)>>

fmt1(v) ==
  LET h == IF v.t = "int" THEN v.n * 100 ELSE v.n
      q == h \div 10
      r == h % 10
      t == IF r > 5 THEN q + 1
           ELSE IF r < 5 THEN q
           ELSE IF q % 2 = 0 THEN q ELSE q + 1
  IN  Digits(t \div 10) \o <<".", Digit(t % 10)>>

\* ------------------------------------------------- ordered dictionaries
\* a dict is a sequence of <<key, value>> pairs in insertion order
Keys(d) == [i \in 1..Len(d) |-> d[i][1]]
HasKey(d, k) == \E i \in 1..Len(d) : d[i][1] = k
Get(d, k) == d[CHOOSE i \in 1..Len(d) : d[i][1] = k][2]

\* d[k] = v : an existing key keeps its position and takes the new value
DictSet(d, k, v) ==
  IF HasKey(d, k)
  THEN [i \in 1..Len(d) |-> IF d[i][1] = k THEN <<k, v>> ELSE d[i]]
  ELSE Append(d, <<k, v>>)

RECURSIVE DictUpdate(_, _)
DictUpdate(d, pairs) ==
  IF pairs = <<>> THEN d
  ELSE DictUpdate(DictSet(d, Head(pairs)[1], Head(pairs)[2]), Tail(pairs))

\* ----------------------------------------------------- get_disk_metrics
VirtualFsTypes == { <<"t", "m", "p", "f", "s">>, <<"d", "e", "v", "t", "m", "p", "f", "s">>, <<"s", "q", "u", "a", "s", "h", "f", "s">>, <<"o", "v", "e", "r", "l", "a", "y">>,
                    <<"p", "r", "o", "c">>, <<"s", "y", "s", "f", "s">>, <<"c", "g", "r", "o", "u", "p">> }

UsageExceptions == {"PermissionError", "FileNotFoundError", "OSError"}

\* the except clauses of the loop body: every Exception is caught
caught_silent(exc) == exc \in {"PermissionError", "FileNotFoundError"}
caught_narrow(exc) == caught_silent(exc)
caught(exc) == caught_silent(exc) \/ exc \in UsageExceptions

mount_name_noroot(mountpoint) ==
  strip(replace(replace(mountpoint, "/", "_"), ".", "_"), "_")

mount_name(mountpoint) ==
  LET name == strip(replace(replace(mountpoint, "/", "_"), ".", "_"), "_")
  IN  IF name = <<>> THEN <<"r", "o", "o", "t">> ELSE name

disk_info(partition) ==
  [ mountpoint  |-> partition.mountpoint,
    device      |-> basename(partition.device),
    fstype      |-> partition.fstype,
    total_gb    |-> round2(partition.usage.total, GiB),
    used_gb     |-> round2(partition.usage.used, GiB),
    free_gb     |-> round2(partition.usage.free, GiB),
    percent     |-> partition.usage.percent * 10,
    total_bytes |-> partition.usage.total,
    used_bytes  |-> partition.usage.used,
    free_bytes  |-> partition.usage.free ]

\* the loop over the partitions; acc is [disk_metrics, err, raised]
RECURSIVE disk_loop(_, _)
disk_loop(partitions, acc) ==
  IF partitions = <<>> \/ acc.raised # "none" THEN acc
  ELSE
    LET partition == Head(partitions)
        rest == Tail(partitions)
    IN  IF partition.fstype \in VirtualFsTypes THEN disk_loop(rest, acc)
        ELSE IF partition.usage.exc = "none"
        THEN disk_loop(rest,
               [acc EXCEPT !.disk_metrics =
                  DictSet(@, mount_name(partition.mountpoint), disk_info(partition))])
        ELSE IF caught_silent(partition.usage.exc) THEN disk_loop(rest, acc)
        ELSE IF caught(partition.usage.exc)
        THEN disk_loop(rest,
               [acc EXCEPT !.err = Append(@,
                  <<"Error reading ">> \o partition.mountpoint
                    \o <<": ", partition.usage.exc>>)])
        ELSE [acc EXCEPT !.raised = partition.usage.exc]

get_disk_metrics(partitions) ==
  disk_loop(partitions, [disk_metrics |-> <<>>, err |-> <<>>, raised |-> "none"])

\* ------------------------------------------------------ collect_metrics
\* the top-level OS queries, in the order collect_metrics makes them
Queries == <<"cpu_percent", "virtual_memory", "swap_memory", "disk_partitions",
             "disk_io_counters", "net_io_counters", "getloadavg">>

QueryPos(q) == CHOOSE i \in 1..Len(Queries) : Queries[i] = q

\* r.fail names the query that raises ("none": all succeed)
Fails(r, q) == r.fail = q
FailsBefore(r, q) == r.fail # "none" /\ QueryPos(r.fail) < QueryPos(q)

swap_total_gb(swap) == IF swap.total > 0 THEN FloatV(round2(swap.total, GiB)) ELSE IntV(0)
swap_used_gb_unguarded(swap) == FloatV(round2(swap.used, GiB))
swap_used_gb(swap) == IF swap.total > 0 THEN FloatV(round2(swap.used, GiB)) ELSE IntV(0)
swap_percent(swap) == IF swap.total > 0 THEN FloatV(swap.percent * 10) ELSE IntV(0)

fixed_metrics(r) ==
  << << <<"timestamp">>, StrV(r.timestamp)>>,
     << <<"hostname">>, StrV(r.hostname)>>,
     << <<"cpu_percent">>, FloatV(r.cpu_percent * 10)>>,
     << <<"cpu_count">>, IntV(r.cpu_count)>>,
     << <<"cpu_freq_current">>,
        IF r.cpu_freq.present THEN FloatV(r.cpu_freq.current) ELSE NoneV>>,
     << <<"load_1min">>, FloatV(r.load_avg[1])>>,
     << <<"load_5min">>, FloatV(r.load_avg[2])>>,
     << <<"load_15min">>, FloatV(r.load_avg[3])>>,
     << <<"memory_total_gb">>, FloatV(round2(r.memory.total, GiB))>>,
     << <<"memory_available_gb">>, FloatV(round2(r.memory.available, GiB))>>,
     << <<"memory_used_gb">>, FloatV(round2(r.memory.used, GiB))>>,
     << <<"memory_percent">>, FloatV(r.memory.percent * 10)>>,
     << <<"swap_total_gb">>, swap_total_gb(r.swap)>>,
     << <<"swap_used_gb">>, swap_used_gb(r.swap)>>,
     << <<"swap_percent">>, swap_percent(r.swap)>>,
     << <<"disk_io_read_mb">>, FloatV(round2(r.disk_io.read_bytes, MiB))>>,
     << <<"disk_io_write_mb">>, FloatV(round2(r.disk_io.write_bytes, MiB))>>,
     << <<"net_mb_sent">>, FloatV(round2(r.net_io.bytes_sent, MiB))>>,
     << <<"net_mb_recv">>, FloatV(round2(r.net_io.bytes_recv, MiB))>>,
     << <<"process_count">>, IntV(r.process_count)>> >>

\* f'disk_{mount_name}_{field}'
disk_key(name, field) == <<"disk_">> \o name \o <<field>>

disk_keys(name, disk) ==
  << <<disk_key(name, "_total_gb"), FloatV(disk.total_gb)>>,
     <<disk_key(name, "_used_gb"), FloatV(disk.used_gb)>>,
     <<disk_key(name, "_free_gb"), FloatV(disk.free_gb)>>,
     <<disk_key(name, "_percent"), FloatV(disk.percent)>>,
     <<disk_key(name, "_device"), StrV(disk.device)>>,
     <<disk_key(name, "_fstype"), StrV(disk.fstype)>> >>

\* the guard of the two running totals
summed_all(fstype) == TRUE
summed(fstype) == ~ \E x \in {<<"o", "v", "e", "r", "l", "a", "y">>, <<"s", "q", "u", "a", "s", "h", "f", "s">>} : contains(x, fstype)

\* the loop over disk_metrics.items(); acc is [metrics, used, size]
RECURSIVE add_disks(_, _)
add_disks(disk_metrics, acc) ==
  IF disk_metrics = <<>> THEN acc
  ELSE
    LET name == Head(disk_metrics)[1]
        disk == Head(disk_metrics)[2]
        take == summed(disk.fstype)
    IN  add_disks(Tail(disk_metrics),
          [ metrics |-> DictUpdate(acc.metrics, disk_keys(name, disk)),
            used    |-> IF take THEN acc.used + disk.used_bytes ELSE acc.used,
            size    |-> IF take THEN acc.size + disk.total_bytes ELSE acc.size ])

aggregate_always(total_disk_size, total_disk_used) ==
  << << <<"disk_total_all_gb">>, FloatV(round2(total_disk_size, GiB))>>,
     << <<"disk_used_all_gb">>, FloatV(round2(total_disk_used, GiB))>>,
     << <<"disk_percent_all">>,
        FloatV(IF total_disk_size > 0
               THEN percent_all(total_disk_used, total_disk_size) ELSE 0)>> >>

aggregate_metrics(total_disk_size, total_disk_used) ==
  IF total_disk_size > 0
  THEN << << <<"disk_total_all_gb">>, FloatV(round2(total_disk_size, GiB))>>,
          << <<"disk_used_all_gb">>, FloatV(round2(total_disk_used, GiB))>>,
          << <<"disk_percent_all">>,
             FloatV(percent_all(total_disk_used, total_disk_size))>> >>
  ELSE <<>>

\* collect_metrics() against the mount table and the readings r; the result
\* is [raised, metrics, err, enumerations]
collect_metrics(partitions, r) ==
  LET listed == ~ FailsBefore(r, "disk_partitions")
      disks  == IF listed /\ ~ Fails(r, "disk_partitions")
                THEN get_disk_metrics(partitions)
                ELSE [disk_metrics |-> <<>>, err |-> <<>>, raised |-> "none"]
      acc    == add_disks(disks.disk_metrics,
                          [metrics |-> fixed_metrics(r), used |-> 0, size |-> 0])
      exc    == IF r.fail # "none" /\ (disks.raised = "none"
                     \/ QueryPos(r.fail) <= QueryPos("disk_partitions"))
                THEN r.fail ELSE disks.raised
  IN  [ raised       |-> exc,
        err          |-> disks.err,
        enumerations |-> IF listed THEN 1 ELSE 0,
        metrics      |-> IF exc # "none" THEN <<>>
                         ELSE DictSet(
                                DictUpdate(acc.metrics,
                                           aggregate_metrics(acc.size, acc.used)),
                                <<"disk_count">>,
                                IntV(Len(disks.disk_metrics))) ]

\* ----------------------------------------------------------- presenters
csv_header_line(m) == join(<<",">>, Keys(m))

csv_field(value) ==
  IF value.t = "None" THEN <<>>
  ELSE IF value.t = "str" /\ contains(<<",">>, value.s)
  THEN <<"\"">> \o value.s \o <<"\"">>
  ELSE str(value)

csv_row_line(m) == join(<<",">>, [i \in 1..Len(m) |-> csv_field(m[i][2])])

json_char(c) == IF c = "\"" THEN <<"\\", "\"">>
                ELSE IF c = "\\" THEN <<"\\", "\\">> ELSE <<c>>

json_value(value) ==
  CASE value.t = "None" -> <<"null">>
    [] value.t = "str"  -> <<"\"">> \o concat([i \in 1..Len(value.s) |-> json_char(value.s[i])])
                           \o <<"\"">>
    [] OTHER            -> str(value)

\* json.dumps(metrics, indent=2)
json_dumps(m) ==
  <<"{", "\n">> \o
  join(<<",", "\n">>,
       [i \in 1..Len(m) |-> <<"  ", "\"">> \o m[i][1] \o <<"\"", ": ">> \o json_value(m[i][2])])
  \o <<"\n", "}">>

Bar == <<"============================================================">>

human_disk_lines(disk) ==
  << <<"  ">> \o disk.mountpoint \o <<":">>,
     <<"    Used: ">> \o fmt1(FloatV(disk.used_gb)) \o <<" GB / ">>
        \o fmt1(FloatV(disk.total_gb)) \o <<" GB (">> \o str(FloatV(disk.percent)) \o <<"%)">>,
     <<"    Free: ">> \o fmt1(FloatV(disk.free_gb)) \o <<" GB">>,
     <<"    Type: ">> \o disk.device \o <<" (">> \o disk.fstype \o <<")">> >>

\* the print calls of print_human_readable, one element per call
human_lines(m, disk_metrics) ==
  << <<"\n">> \o Bar,
     <<"System Metrics Report - ">> \o Get(m, <<"timestamp">>).s,
     Bar,
     <<"\n", "CPU Usage:">>,
     <<"  Overall: ">> \o str(Get(m, <<"cpu_percent">>)) \o <<"%">>,
     <<"  Load Average: ">> \o fmt2(Get(m, <<"load_1min">>)) \o <<", ">>
        \o fmt2(Get(m, <<"load_5min">>)) \o <<", ">> \o fmt2(Get(m, <<"load_15min">>)),
     <<"\n", "Memory:">>,
     <<"  Used: ">> \o fmt1(Get(m, <<"memory_used_gb">>)) \o <<" GB / ">>
        \o fmt1(Get(m, <<"memory_total_gb">>)) \o <<" GB (">>
        \o str(Get(m, <<"memory_percent">>)) \o <<"%)">>,
     <<"  Available: ">> \o fmt1(Get(m, <<"memory_available_gb">>)) \o <<" GB">> >>
  \o (IF Get(m, <<"swap_total_gb">>).n > 0
      THEN << <<"  Swap: ">> \o fmt1(Get(m, <<"swap_used_gb">>)) \o <<" GB / ">>
                \o fmt1(Get(m, <<"swap_total_gb">>)) \o <<" GB (">>
                \o str(Get(m, <<"swap_percent">>)) \o <<"%)">> >>
      ELSE <<>>)
  \o << <<"\n", "Disk Usage:">> >>
  \o concat([i \in 1..Len(disk_metrics) |-> human_disk_lines(disk_metrics[i][2])])
  \o << <<"\n", "Disk IO:">>,
        <<"  Read: ">> \o fmt1(Get(m, <<"disk_io_read_mb">>)) \o <<" MB">>,
        <<"  Write: ">> \o fmt1(Get(m, <<"disk_io_write_mb">>)) \o <<" MB">>,
        <<"\n", "Network:">>,
        <<"  Sent: ">> \o fmt1(Get(m, <<"net_mb_sent">>)) \o <<" MB">>,
        <<"  Received: ">> \o fmt1(Get(m, <<"net_mb_recv">>)) \o <<" MB">>,
        <<"\n", "System:">>,
        <<"  Processes: ">> \o str(Get(m, <<"process_count">>)),
        <<"  Disks: ">> \o str(Get(m, <<"disk_count">>)),
        <<"\n">> \o Bar >>

\* ---------------------------------------------------------- environment
UsageOk    == [exc |-> "none", total |-> 268435456, used |-> 134217728,
               free |-> 134217728, percent |-> 500]
UsageEmpty == [exc |-> "none", total |-> 0, used |-> 0, free |-> 0, percent |-> 0]
UsageFail(e) == [exc |-> e, total |-> 0, used |-> 0, free |-> 0, percent |-> 0]

Part(m, d, f, u) == [mountpoint |-> m, device |-> d, fstype |-> f, usage |-> u]

FsTypes == { <<"e", "x", "t", "4">>, <<"f", "u", "s", "e", ".", "o", "v", "e", "r", "l", "a", "y", "f", "s">>, <<"t", "m", "p", "f", "s">>, <<"d", "e", "v", "t", "m", "p", "f", "s">>, <<"s", "q", "u", "a", "s", "h", "f", "s">>,
             <<"o", "v", "e", "r", "l", "a", "y">>, <<"p", "r", "o", "c">>, <<"s", "y", "s", "f", "s">>, <<"c", "g", "r", "o", "u", "p">> }

\* what psutil.disk_partitions() may list, with what disk_usage() does for it
Partitions ==
  { Part(<<"/">>, <<"/", "d", "e", "v", "/", "s", "d", "a", "1">>, <<"e", "x", "t", "4">>, UsageOk),
    Part(<<"/", "r", "o", "o", "t">>, <<"/", "d", "e", "v", "/", "m", "a", "p", "p", "e", "r", "/", "v", "g", ",", "1">>, <<"e", "x", "t", "4">>, UsageOk),
    Part(<<"/", "m", "n", "t", "/", "a", ",", "b">>, <<"/", "d", "e", "v", "/", "s", "d", "c", "1">>, <<"e", "x", "t", "4">>, UsageOk),
    Part(<<"/", "d", "a", "t", "a", ".", "b", "a", "k">>, <<"/", "d", "e", "v", "/", "s", "d", "b", "1">>, <<"e", "x", "t", "4">>, UsageEmpty),
    Part(<<"/", "d", "a", "t", "a", "/", "b", "a", "k">>, <<"f", "u", "s", "e", "-", "o", "v", "e", "r", "l", "a", "y", "f", "s">>, <<"f", "u", "s", "e", ".", "o", "v", "e", "r", "l", "a", "y", "f", "s">>, UsageOk),
    Part(<<"/", "r", "o", "o", "t">>, <<"/", "d", "e", "v", "/", "s", "d", "a", "2">>, <<"e", "x", "t", "4">>, UsageFail("OSError")) }

\* every filesystem type and every failure of the usage query, on one partition
OtherPartitions ==
  { Part(<<"/", "r", "u", "n">>, <<"n", "o", "n", "e">>, f, UsageOk) : f \in FsTypes }
  \cup { Part(<<"/", "r", "o", "o", "t">>, <<"/", "d", "e", "v", "/", "s", "d", "a", "2">>, <<"e", "x", "t", "4">>, UsageFail(e)) : e \in UsageExceptions }

\* a partition mounted at any path over NameAlphabet of at most MaxLen characters
NameAlphabet == {"/", ".", "_", "a"}

NamedPartitions ==
  { Part(m, <<"/", "d", "e", "v", "/", "s", "d", "a", "1">>, <<"e", "x", "t", "4">>, UsageOk) :
      m \in UNION {[1..n -> NameAlphabet] : n \in 0..MaxLen} }

\* the mount tables an invocation may start under
MountTables ==
  UNION {[1..n -> Partitions] : n \in 0..MaxParts}
  \cup { <<p>> : p \in OtherPartitions \cup NamedPartitions }
  \cup { <<Part(<<"/">>, <<"/", "d", "e", "v", "/", "s", "d", "a", "1">>, <<"e", "x", "t", "4">>, UsageOk), p>> : p \in OtherPartitions }
  \cup { <<p, Part(<<"/">>, <<"/", "d", "e", "v", "/", "s", "d", "a", "1">>, <<"e", "x", "t", "4">>, UsageOk)>> : p \in OtherPartitions }

BaseReading ==
  [ fail          |-> "none",
    timestamp     |-> <<"2026-01-01T00:00:00.000001">>,
    hostname      |-> <<"h", "o", "s", "t", "1">>,
    cpu_percent   |-> 125,
    cpu_count     |-> 4,
    cpu_freq      |-> [present |-> TRUE, current |-> 240000],
    load_avg      |-> <<50, 75, 100>>,
    memory        |-> [total |-> GiB, available |-> 536870912,
                       used |-> 536870912, percent |-> 500],
    swap          |-> [total |-> 536870912, used |-> 134217728, percent |-> 250],
    disk_io       |-> [read_bytes |-> 5767168, write_bytes |-> 1048576],
    net_io        |-> [bytes_sent |-> 2097152, bytes_recv |-> 3670016],
    process_count |-> 120 ]

\* the OS readings of one collection pass; r.fail is the query that raises
Readings ==
  { BaseReading,
    [BaseReading EXCEPT !.cpu_freq = [present |-> FALSE, current |-> 0],
                        !.hostname = <<"h", "o", ",", "s", "t">>,
                        !.swap = [total |-> 0, used |-> 0, percent |-> 0]],
    [BaseReading EXCEPT !.swap = [total |-> 0, used |-> 134217728, percent |-> 250]] }
  \cup { [BaseReading EXCEPT !.fail = Queries[i]] : i \in 1..Len(Queries) }

Formats == {"csv", "json", "header", "human"}

\* --------------------------------------------------------------- actions
Init ==
  /\ args \in [format : Formats, once : BOOLEAN]
  /\ mounts \in MountTables
  /\ pc = "main"
  /\ metrics = <<>>
  /\ enumerated = <<>>
  /\ readings = <<>>
  /\ enumerations = 0
  /\ raised = "none"
  /\ stdout = <<>>
  /\ stderr = <<>>
  /\ exit_status = -1

header_out(m) == <<csv_header_line(m)>>
row_out(m) == <<csv_row_line(m)>>
json_out(m) == <<json_dumps(m)>>

\* what print_human_readable prints before its own get_disk_metrics() call
banner_out(m) == << <<"\n">> \o Bar >>
no_out(m) == <<>>

\* what a presenter prints right after its collect_metrics() call
printed(out, m) ==
  CASE out = "header" -> header_out(m)
    [] out = "json"   -> json_out(m)
    [] out = "human"  -> no_out(m)
    [] OTHER          -> row_out(m)

\* metrics = collect_metrics() under readings r, then the presenter's output
CollectAndPrint(r, out, next) ==
  LET res == collect_metrics(mounts, r)
  IN  /\ readings' = r
      /\ enumerated' = mounts
      /\ enumerations' = enumerations + res.enumerations
      /\ stderr' = stderr \o res.err
      /\ metrics' = res.metrics
      /\ raised' = res.raised
      /\ IF res.raised # "none"
         THEN pc' = "raised" /\ stdout' = stdout
         ELSE pc' = next /\ stdout' = stdout \o printed(out, res.metrics)
      /\ UNCHANGED <<args, mounts, exit_status>>

print_csv_header ==
  /\ pc = "main" /\ args.format = "header"
  /\ \E r \in Readings : CollectAndPrint(r, "header", "printed")

print_csv_row ==
  /\ pc = "main" /\ args.format \notin {"header", "json", "human"}
  /\ \E r \in Readings : CollectAndPrint(r, "csv", "printed")

print_json ==
  /\ pc = "main" /\ args.format = "json"
  /\ \E r \in Readings : CollectAndPrint(r, "json", "printed")

\* print_human_readable up to the return of its collect_metrics() call
print_human_readable_collect ==
  /\ pc = "main" /\ args.format = "human"
  /\ \E r \in Readings : CollectAndPrint(r, "human", "human_collected")

\* print_human_readable from its own get_disk_metrics() call to its last print
print_human_readable_render ==
  /\ pc = "human_collected"
  /\ \E fail \in {"none", "disk_partitions"} :
       LET disks == IF fail = "none" THEN get_disk_metrics(mounts)
                    ELSE [disk_metrics |-> <<>>, err |-> <<>>, raised |-> fail]
       IN  /\ enumerations' = enumerations + 1
           /\ stderr' = stderr \o disks.err
           /\ raised' = disks.raised
           /\ IF disks.raised # "none"
              THEN pc' = "raised" /\ stdout' = stdout
              ELSE pc' = "printed"
                   /\ stdout' = stdout \o human_lines(metrics, disks.disk_metrics)
  /\ UNCHANGED <<args, mounts, metrics, enumerated, readings, exit_status>>

\* a filesystem is unmounted while print_human_readable runs
Unmount ==
  /\ pc = "human_collected"
  /\ \E i \in 1..Len(mounts) :
       mounts' = [j \in 1..(Len(mounts) - 1) |->
                    IF j < i THEN mounts[j] ELSE mounts[j + 1]]
  /\ UNCHANGED <<args, pc, metrics, enumerated, readings, enumerations, raised,
                 stdout, stderr, exit_status>>

\* sys.exit(0) without --once, the end of the script with it
main_exit ==
  /\ pc = "printed"
  /\ exit_status' = (IF ~ args.once THEN 0 ELSE 0)
  /\ pc' = "exit"
  /\ UNCHANGED <<args, mounts, metrics, enumerated, readings,
                 enumerations, raised, stdout, stderr>>

main_except ==
  /\ pc = "raised"
  /\ stderr' = Append(stderr, <<"Error collecting metrics: ", raised>>)
  /\ exit_status' = 1
  /\ pc' = "exit"
  /\ UNCHANGED <<args, mounts, metrics, enumerated, readings,
                 enumerations, raised, stdout>>

Next ==
  \/ print_csv_header
  \/ print_csv_row
  \/ print_json
  \/ print_human_readable_collect
  \/ print_human_readable_render
  \/ Unmount
  \/ main_exit
  \/ main_except

Spec == Init /\ [][Next]_vars

\* ------------------------------------------------------------ properties
\* a snapshot has been returned by collect_metrics
Snapshot == metrics # <<>>

Min(S) == CHOOSE x \in S : \A y \in S : x <= y

\* the fields of a CSV line from position i on, as a quote-aware reader
\* splits it: a field that opens with '"' runs to its closing '"'
RECURSIVE ParseCSV(_, _)
ParseCSV(line, i) ==
  IF i > Len(line) THEN << <<>> >>
  ELSE IF line[i] = "\"" /\ \E k \in (i + 1)..Len(line) : line[k] = "\""
  THEN LET close == Min({k \in (i + 1)..Len(line) : line[k] = "\""})
           stop  == Min({k \in (close + 1)..(Len(line) + 1) :
                           k = Len(line) + 1 \/ line[k] = ","})
           field == SubSeq(line, i + 1, close - 1) \o SubSeq(line, close + 1, stop - 1)
       IN  IF stop > Len(line) THEN <<field>>
           ELSE <<field>> \o ParseCSV(line, stop + 1)
  ELSE LET stop == Min({k \in i..(Len(line) + 1) : k = Len(line) + 1 \/ line[k] = ","})
           field == SubSeq(line, i, stop - 1)
       IN  IF stop > Len(line) THEN <<field>>
           ELSE <<field>> \o ParseCSV(line, stop + 1)

Fields(line) == ParseCSV(line, 1)

ExcludedTypes == { <<"t", "m", "p", "f", "s">>, <<"d", "e", "v", "t", "m", "p", "f", "s">>, <<"s", "q", "u", "a", "s", "h", "f", "s">>, <<"o", "v", "e", "r", "l", "a", "y">>,
                   <<"p", "r", "o", "c">>, <<"s", "y", "s", "f", "s">>, <<"c", "g", "r", "o", "u", "p">> }

\* the partitions of the enumeration that the snapshot has to include
IncludedIdx ==
  {i \in 1..Len(enumerated) :
     enumerated[i].fstype \notin ExcludedTypes /\ enumerated[i].usage.exc = "none"}

Name(i) == mount_name(enumerated[i].mountpoint)

Suffixes == <<"_total_gb", "_used_gb", "_free_gb", "_percent", "_device", "_fstype">>

SixKeys(n) == [k \in 1..6 |-> disk_key(n, Suffixes[k])]

Range(f) == {f[x] : x \in DOMAIN f}

FixedKeys ==
  << <<"timestamp">>, <<"hostname">>, <<"cpu_percent">>, <<"cpu_count">>,
     <<"cpu_freq_current">>, <<"load_1min">>, <<"load_5min">>, <<"load_15min">>,
     <<"memory_total_gb">>, <<"memory_available_gb">>, <<"memory_used_gb">>,
     <<"memory_percent">>, <<"swap_total_gb">>, <<"swap_used_gb">>,
     <<"swap_percent">>, <<"disk_io_read_mb">>, <<"disk_io_write_mb">>,
     <<"net_mb_sent">>, <<"net_mb_recv">>, <<"process_count">> >>

AggregateKeys == << <<"disk_total_all_gb">>, <<"disk_used_all_gb">>, <<"disk_percent_all">> >>

\* the disk entries present in the snapshot: for each name the last included
\* partition that carries it
Present == {i \in IncludedIdx : ~ \E j \in IncludedIdx : j > i /\ Name(j) = Name(i)}

RECURSIVE SumTotal(_)
SumTotal(I) ==
  IF I = {} THEN 0
  ELSE LET i == CHOOSE x \in I : TRUE IN enumerated[i].usage.total + SumTotal(I \ {i})

RECURSIVE SumUsed(_)
SumUsed(I) ==
  IF I = {} THEN 0
  ELSE LET i == CHOOSE x \in I : TRUE IN enumerated[i].usage.used + SumUsed(I \ {i})

OverlayLike(i) ==
  contains(<<"o", "v", "e", "r", "l", "a", "y">>, enumerated[i].fstype) \/ contains(<<"s", "q", "u", "a", "s", "h", "f", "s">>, enumerated[i].fstype)

Physical == {i \in Present : ~ OverlayLike(i)}

\* C1: the header line and the row line of one snapshot split into the same
\* number of CSV columns, and the i-th header column is the i-th key.
C1_HeaderRowParity ==
  Snapshot =>
    LET header == Fields(csv_header_line(metrics))
        row    == Fields(csv_row_line(metrics))
    IN  /\ Len(header) = Len(row)
        /\ Len(header) = Len(metrics)
        /\ \A i \in 1..Len(header) : header[i] = metrics[i][1]

\* C2: two included partitions with distinct mountpoints have disjoint keys,
\* and each finds its own device and fstype under its keys.
C2_NoSilentCollision ==
  Snapshot =>
    \A i, j \in IncludedIdx :
      enumerated[i].mountpoint # enumerated[j].mountpoint =>
        /\ Range(SixKeys(Name(i))) \cap Range(SixKeys(Name(j))) = {}
        /\ Get(metrics, disk_key(Name(i), "_device")) = StrV(basename(enumerated[i].device))
        /\ Get(metrics, disk_key(Name(i), "_fstype")) = StrV(enumerated[i].fstype)
        /\ Get(metrics, disk_key(Name(i), "_total_gb")) =
             FloatV(round2(enumerated[i].usage.total, GiB))

\* C3: disk_count is the number of included partitions of the enumeration.
C3_DiskCountIsIncluded ==
  (Snapshot /\ \A i, j \in 1..Len(enumerated) :
                 i # j => enumerated[i].mountpoint # enumerated[j].mountpoint)
    => Get(metrics, <<"disk_count">>) = IntV(Cardinality(IncludedIdx))

\* C4: the dynamic keys of a snapshot are exactly the keys of the partitions
\* whose fstype is none of the seven excluded types and whose usage query
\* succeeded; a failing usage query never surfaces as the exception of the
\* run, and a pass whose top-level queries succeed returns a snapshot.
C4_InclusionRule ==
  /\ raised \notin UsageExceptions
  /\ (pc # "main" /\ readings.fail = "none") => Snapshot
  /\ Snapshot =>
       Range(Keys(metrics)) \ (Range(FixedKeys) \cup Range(AggregateKeys) \cup {<<"disk_count">>})
         = UNION {Range(SixKeys(Name(i))) : i \in IncludedIdx}

C4_Witness ==
  /\ Snapshot
  /\ \E i \in IncludedIdx : TRUE
  /\ \E i \in 1..Len(enumerated) : enumerated[i].usage.exc = "OSError"

\* the mountpoint with '/' and '.' turned into '_'
Underscored(m) == [i \in 1..Len(m) |-> IF m[i] \in {"/", "."} THEN "_" ELSE m[i]]

\* n is r from its first to its last character other than '_', 'root' when
\* r has no such character
Trimmed(r, n) ==
  LET keep == {i \in 1..Len(r) : r[i] # "_"}
  IN  IF keep = {} THEN n = <<"r", "o", "o", "t">> ELSE n = SubSeq(r, Min(keep), Max(keep))

\* the infixes of the dynamic keys of the snapshot
Infixes ==
  { SubSeq(metrics[k][1], 2, Len(metrics[k][1]) - 1) :
      k \in {x \in 1..Len(metrics) :
               Head(metrics[x][1]) = "disk_" /\ Len(metrics[x][1]) >= 2} }

\* C5: the infix of the keys of an included partition is its mountpoint with
\* '/' and '.' turned into '_' and the underscores at both ends removed,
\* 'root' when nothing is left; no infix is empty, and a partition mounted at
\* '/' has the six disk_root_ keys.
C5_SanitizedName ==
  Snapshot =>
    LET infixes == Infixes
    IN  /\ <<>> \notin infixes
        /\ \A i \in IncludedIdx :
             \E n \in infixes :
               /\ Trimmed(Underscored(enumerated[i].mountpoint), n)
               /\ \A k \in 1..6 : HasKey(metrics, <<"disk_">> \o n \o <<Suffixes[k]>>)
        /\ \A n \in infixes :
             \E i \in IncludedIdx : Trimmed(Underscored(enumerated[i].mountpoint), n)
        /\ (\E i \in IncludedIdx : enumerated[i].mountpoint = <<"/">>) =>
             \A k \in 1..6 : HasKey(metrics, <<"disk_", "r", "o", "o", "t", Suffixes[k]>>)

C5_Witness ==
  /\ Snapshot
  /\ \E i \in IncludedIdx : enumerated[i].mountpoint = <<"/">>
  /\ \E i \in IncludedIdx : enumerated[i].mountpoint = <<"/", "m", "n", "t", "/", "a", ",", "b">>

\* one whole rendering of the snapshot is on standard output
Complete ==
  /\ Snapshot
  /\ CASE args.format = "header" ->
            /\ Len(stdout) = 1
            /\ Head(stdout[1]) = "timestamp"
            /\ stdout[1][Len(stdout[1])] = "disk_count"
       [] args.format = "csv" ->
            /\ Len(stdout) = 1
            /\ Len(Fields(stdout[1])) = Len(metrics)
       [] args.format = "json" ->
            /\ Len(stdout) = 1
            /\ Head(stdout[1]) = "{"
            /\ stdout[1][Len(stdout[1])] = "}"
            /\ Cardinality({i \in 1..Len(stdout[1]) : stdout[1][i] = ": "}) = Len(metrics)
       [] args.format = "human" ->
            /\ stdout[1] = <<"\n">> \o Bar
            /\ stdout[Len(stdout)] = <<"\n">> \o Bar
            /\ \E i \in 1..Len(stdout) : Head(stdout[i]) = "  Disks: "

C7_SwapAbsentZero ==
  (Snapshot /\ readings.swap.total = 0) =>
    /\ Get(metrics, <<"swap_total_gb">>) = IntV(0)
    /\ Get(metrics, <<"swap_used_gb">>) = IntV(0)
    /\ Get(metrics, <<"swap_percent">>) = IntV(0)

C7_Witness ==
  Snapshot /\ readings.swap.total = 0 /\ readings.swap.used > 0 /\ readings.swap.percent > 0

\* the disks the human report lists one by one
DisksListed == Cardinality({i \in 1..Len(stdout) : Head(stdout[i]) = "    Type: "})

\* C8: the human report of a successful invocation lists one by one as many
\* disks as its 'Disks:' line counts, whatever happens to the mount table
\* while the invocation runs.
C8_ListedAreCounted ==
  (pc = "exit" /\ exit_status = 0 /\ args.format = "human") =>
    Get(metrics, <<"disk_count">>) = IntV(DisksListed)

\* C9 as stated: the totals are those of all the disk entries present in the
\* snapshot.
C9_FilterRedundant ==
  (Snapshot /\ SumTotal(Present) > 0) =>
    /\ HasKey(metrics, <<"disk_total_all_gb">>)
    /\ Get(metrics, <<"disk_total_all_gb">>) = FloatV(round2(SumTotal(Present), GiB))
    /\ Get(metrics, <<"disk_used_all_gb">>) = FloatV(round2(SumUsed(Present), GiB))

\* C9 as amended: the totals are those of the disk entries present in the
\* snapshot whose fstype contains neither 'overlay' nor 'squashfs'; an entry
\* whose fstype only contains one of them has keys and is not summed.
C9_FilterBySubstring ==
  Snapshot =>
    /\ \A i \in Present : HasKey(metrics, disk_key(Name(i), "_total_gb"))
    /\ IF SumTotal(Physical) > 0
       THEN /\ HasKey(metrics, <<"disk_total_all_gb">>)
            /\ Get(metrics, <<"disk_total_all_gb">>) = FloatV(round2(SumTotal(Physical), GiB))
            /\ Get(metrics, <<"disk_used_all_gb">>) = FloatV(round2(SumUsed(Physical), GiB))
       ELSE ~ HasKey(metrics, <<"disk_total_all_gb">>)

C9_Witness ==
  /\ Snapshot
  /\ Physical # {}
  /\ SumTotal(Physical) > 0
  /\ \E i \in Present : OverlayLike(i) /\ enumerated[i].usage.total > 0

\* the dynamic keys, name by name in the order of the first included
\* partition of each name, from partition i on
RECURSIVE DynamicKeys(_)
DynamicKeys(i) ==
  IF i > Len(enumerated) THEN <<>>
  ELSE IF i \in IncludedIdx /\ ~ \E j \in IncludedIdx : j < i /\ Name(j) = Name(i)
  THEN SixKeys(Name(i)) \o DynamicKeys(i + 1)
  ELSE DynamicKeys(i + 1)

\* C10: the keys of a snapshot are the 20 fixed keys, the six keys of each
\* disk entry in enumeration order, the three aggregate keys exactly when the
\* accumulated total size is positive, and disk_count last; a pass without
\* included disks still returns a snapshot, of 21 keys with disk_count 0.
C10_KeyLayout ==
  /\ (pc # "main" /\ readings.fail = "none") => Snapshot
  /\ Snapshot =>
       /\ Keys(metrics) = FixedKeys \o DynamicKeys(1)
                            \o (IF SumTotal(Physical) > 0 THEN AggregateKeys ELSE <<>>)
                            \o << <<"disk_count">> >>
       /\ IncludedIdx = {} =>
            Len(metrics) = 21 /\ Get(metrics, <<"disk_count">>) = IntV(0)

C10_Witness ==
  /\ Snapshot
  /\ Cardinality(IncludedIdx) = 2
  /\ Len(metrics) = 36

====
